---- MODULE Spec2Model ----
(***************************************************************************)
(* A model of the spin lock of src/src/atomic.rs: Mutex<T> with one        *)
(* AtomicBool flag and an UnsafeCell payload, and its only operation       *)
(* with_lock.  Every thread is a small state machine whose positions are   *)
(* the places of with_lock between two accesses of shared memory.          *)
(*                                                                         *)
(* The flag is an atomic: it has one modification order, and a             *)
(* compare_exchange always acts on its latest value.  The payload is       *)
(* plain memory.  Its writes are kept as a history (hist), and every       *)
(* thread has a view (seen) of how much of that history it is guaranteed   *)
(* to observe.  Under interleaving semantics ("sc") a read returns the     *)
(* latest write.  Under the weak semantics ("relaxed") a read may return   *)
(* any write that is not older than the reader's view, and views are       *)
(* passed from one thread to another only by a Release store that is read  *)
(* by an Acquire operation.                                                *)
(***************************************************************************)
EXTENDS Integers, Sequences, FiniteSets, TLC

\* ------------------------------------------------------------------------
\* Bounds of the model.
NumThreads == 2      \* threads of the workload (100 in test_mutex)
Iters      == 2      \* with_lock calls per thread (10000 in test_mutex)
SeqCalls   == 3      \* calls of the single-threaded workload
MaxInit    == 1      \* initial payloads of the single-threaded workload: 0..MaxInit
MaxCount   == 2      \* the per-call operation counters saturate here

\* ------------------------------------------------------------------------
\* Program constants.
LOCKED   == TRUE
UNLOCKED == FALSE

\* The orderings with_lock passes to its three flag operations.
CasSuccessOrdering == "Relaxed"
CasFailureOrdering == "Relaxed"
SpinLoadOrdering   == "Relaxed"
StoreOrdering      == "Relaxed"

Threads == 1 .. NumThreads

\* The closures handed to with_lock.  "inc" is test_mutex's |l| *l += 1.
\* The others stand for the other shapes a closure FnOnce(&mut T) -> R has:
\* one that also returns what it read, one that only reads, one that
\* overwrites, one whose result depends on the value in a non-additive way.
Closures == {"inc", "fetch_inc", "get", "reset", "double"}

\* Values of closures: () is the empty tuple, a value v the tuple <<v>>.
Unit == << >>
Val(v) == <<v>>

VARIABLES
    locked,   \* Mutex.locked, the AtomicBool
    hist,     \* Mutex.value: the sequence of values written to the payload
    seen,     \* seen[t]: index in hist of the latest write t must observe
    relView,  \* the view a Release store attached to the flag's value (0: none)
    pc,       \* pc[t]: the place of thread t in with_lock
    done,     \* done[t]: the number of calls of t that have returned
    fn,       \* fn[t]: the closure of t's current call
    local,    \* local[t]: the payload value the closure of t has read
    result,   \* result[t]: `ret`, the value of t's closure
    ops,      \* ops[t]: how many flag operations and closure runs t's current call made
    counting, \* whether the calls' operations are counted in ops
    direct,   \* an unprotected variable the same closures are applied to
    directRet,\* what the closure last applied to `direct` returned
    nested,   \* nested[t]: the with_lock calls t's running closures are inside of
    lasso,    \* a remembered earlier state, and what has been observed since
    x,        \* too_relaxed: the AtomicUsize x
    y,        \* too_relaxed: the AtomicUsize y
    tpc,      \* too_relaxed: tpc[t], whether thread t is spawned, running, finished
    todo,     \* too_relaxed: todo[t], the operations t has not performed yet
    reg,      \* too_relaxed: reg[t], the local r1 of t1, r2 of t2
    mainpc,   \* too_relaxed: the place of the test's main thread
    r1,       \* too_relaxed: the main thread's r1 = t1.join()
    r2,       \* too_relaxed: the main thread's r2 = t2.join()
    mode,     \* too_relaxed: whether operations take effect in program order
    order     \* too_relaxed: the operations in the order they took effect in

\* The state of the mutex and of the threads that use it.
mutexVars == <<locked, hist, seen, relView, pc, done, fn, local, result, ops,
               counting, direct, directRet, nested>>

\* The state of the test too_relaxed.
trVars == <<x, y, tpc, todo, reg, mainpc, r1, r2, mode, order>>

vars == <<mutexVars, lasso, trVars>>

\* ------------------------------------------------------------------------
\* Pure helpers.

Max(a, b) == IF a >= b THEN a ELSE b

Bump(n) == IF n < MaxCount THEN n + 1 ELSE MaxCount

\* The payload as it stands in memory: the last write of its history.
Payload == hist[Len(hist)]

NoOps == [cas |-> 0, load |-> 0, f |-> 0, store |-> 0]

\* The counters of thread t after one more operation of kind k.
Counted(t, k) ==
    IF counting THEN [ops EXCEPT ![t][k] = Bump(ops[t][k])] ELSE ops

\* What a closure does to the payload value v it is handed: the value it
\* leaves (val), whether it writes the payload at all (writes), and the value
\* it returns (ret).
Apply(f, v) ==
    CASE f = "inc"       -> [val |-> v + 1, writes |-> TRUE,  ret |-> Unit]
      [] f = "fetch_inc" -> [val |-> v + 1, writes |-> TRUE,  ret |-> Val(v)]
      [] f = "get"       -> [val |-> v,     writes |-> FALSE, ret |-> Val(v)]
      [] f = "reset"     -> [val |-> 0,     writes |-> TRUE,  ret |-> Unit]
      [] f = "double"    -> [val |-> 2 * v, writes |-> TRUE,  ret |-> Val(2 * v)]

\* A compare_exchange that does not compare: it always reports Ok and writes.
CompareExchangeNoCompare(cur, expected, new) == [ok |-> TRUE, flag |-> new]

\* A compare_exchange that fails although the flag holds the expected value
\* (what compare_exchange_weak is allowed to do).
CompareExchangeSpurious(cur, expected, new) == [ok |-> FALSE, flag |-> cur]

\* AtomicBool::compare_exchange(expected, new) on a flag whose latest value is
\* cur: Ok (the flag becomes new) exactly when cur = expected, Err otherwise
\* (the flag is left alone).  The strong form never fails spuriously.
CompareExchange(cur, expected, new) ==
    IF cur = expected
    THEN [ok |-> TRUE,  flag |-> new]
    ELSE [ok |-> FALSE, flag |-> cur]

\* Whether an ordering has Acquire, resp. Release, semantics.
Acquires(o) == o \in {"Acquire", "AcqRel", "SeqCst"}
Releases(o) == o \in {"Release", "AcqRel", "SeqCst"}

\* A payload read that may return a stale write under either memory model.
VisibleStale(t, m) == seen[t] .. Len(hist)

\* The view of thread t after it has read the flag with ordering o: an
\* Acquire read takes over the view a Release store attached to the flag.
Observed(t, o) == IF Acquires(o) THEN Max(seen[t], relView) ELSE seen[t]

\* The writes of the payload a read by thread t may return under memory
\* model m.
Visible(t, m) ==
    IF m = "sc" THEN {Len(hist)} ELSE seen[t] .. Len(hist)

\* A thread holds the lock from its successful compare_exchange to its
\* release store.
Holder(t) == pc[t] \in {"f_read", "f_write", "store"}

\* A thread is in with_lock and has not acquired the lock yet.
Waiting(t) == pc[t] \in {"cas", "spin"}

\* ------------------------------------------------------------------------
\* Mutex::new(v), shared by the threads ts: the payload is v, the flag
\* UNLOCKED; no thread is in with_lock.  Every thread is spawned after the
\* mutex is built, so every thread observes the initial payload.
New(v, ts, c) ==
    /\ counting = c
    /\ locked = UNLOCKED
    /\ hist = <<v>>
    /\ seen = [t \in ts |-> 1]
    /\ relView = 0
    /\ pc = [t \in ts |-> "idle"]
    /\ done = [t \in ts |-> 0]
    /\ fn = [t \in ts |-> "inc"]
    /\ local = [t \in ts |-> v]
    /\ result = [t \in ts |-> Unit]
    /\ ops = [t \in ts |-> NoOps]
    /\ direct = v
    /\ directRet = Unit
    /\ nested = [t \in ts |-> 0]

\* ------------------------------------------------------------------------
\* The steps of with_lock.

\* Thread t calls with_lock(f), f one of the closures F, when it has made
\* fewer than n calls.  The same closure is applied to the unprotected
\* variable.
Call(t, F, n) ==
    /\ pc[t] = "idle"
    /\ done[t] < n
    /\ \E f \in F :
        /\ fn' = [fn EXCEPT ![t] = f]
        /\ direct' = Apply(f, direct).val
        /\ directRet' = Apply(f, direct).ret
    /\ pc' = [pc EXCEPT ![t] = "cas"]
    /\ UNCHANGED <<locked, hist, seen, relView, done, local, result, ops,
                   counting, nested, lasso, trVars>>

\* A with_lock that makes its compare_exchange once and goes on to the
\* closure whatever the result.
CasIgnoresResult(t) ==
    /\ pc[t] = "cas"
    /\ locked' = CompareExchange(locked, UNLOCKED, LOCKED).flag
    /\ pc' = [pc EXCEPT ![t] = "f_read"]
    /\ ops' = Counted(t, "cas")
    /\ UNCHANGED <<hist, seen, relView, done, fn, local, result, direct,
                   directRet, counting, nested, lasso, trVars>>

\* A compare_exchange loop that gives way: it does not take the free lock
\* while another thread is waiting in the load loop.
CasYields(t) ==
    /\ pc[t] = "cas"
    /\ LET r == CompareExchange(locked, UNLOCKED, LOCKED)
           ok == r.ok /\ \A u \in DOMAIN pc \ {t} : pc[u] # "spin"
       IN
        /\ locked' = IF ok THEN r.flag ELSE locked
        /\ pc' = [pc EXCEPT ![t] = IF ok THEN "f_read" ELSE "spin"]
    /\ ops' = Counted(t, "cas")
    /\ UNCHANGED <<hist, seen, relView, done, fn, local, result, direct,
                   directRet, counting, nested, lasso, trVars>>

\* The loop condition: compare_exchange(UNLOCKED, LOCKED).  Ok leaves the
\* loop, the lock acquired; Err enters the loop body.
Cas(t) ==
    /\ pc[t] = "cas"
    /\ LET r == CompareExchange(locked, UNLOCKED, LOCKED)
           ord == IF r.ok THEN CasSuccessOrdering ELSE CasFailureOrdering
       IN
        /\ locked' = r.flag
        /\ pc' = [pc EXCEPT ![t] = IF r.ok THEN "f_read" ELSE "spin"]
        /\ seen' = [seen EXCEPT ![t] = Observed(t, ord)]
        /\ relView' = IF r.ok /\ Releases(ord)
                      THEN Max(relView, seen[t]) ELSE relView
    /\ ops' = Counted(t, "cas")
    /\ UNCHANGED <<hist, done, fn, local, result, direct, directRet,
                   counting, nested, lasso, trVars>>

\* A load loop with its test inverted: it spins while the flag is UNLOCKED.
SpinLoadInverted(t) ==
    /\ pc[t] = "spin"
    /\ pc' = [pc EXCEPT ![t] = IF locked = UNLOCKED THEN "spin" ELSE "cas"]
    /\ ops' = Counted(t, "load")
    /\ UNCHANGED <<locked, hist, seen, relView, done, fn, local, result,
                   direct, directRet, counting, nested, lasso, trVars>>

\* A load loop that takes the lock itself: on reading UNLOCKED it stores LOCKED
\* and goes on to the closure (the "Approach 1" with_lock comments out).
SpinLoadStores(t) ==
    /\ pc[t] = "spin"
    /\ locked' = LOCKED
    /\ pc' = [pc EXCEPT ![t] = IF locked = LOCKED THEN "spin" ELSE "f_read"]
    /\ ops' = Counted(t, "load")
    /\ UNCHANGED <<hist, seen, relView, done, fn, local, result, direct,
                   directRet, counting, nested, lasso, trVars>>

\* The loop body: one load of the flag.  While it reads LOCKED the thread
\* loads again; once it reads UNLOCKED the thread goes back to the
\* compare_exchange.
SpinLoad(t) ==
    /\ pc[t] = "spin"
    /\ pc' = [pc EXCEPT ![t] = IF locked = LOCKED THEN "spin" ELSE "cas"]
    /\ seen' = [seen EXCEPT ![t] = Observed(t, SpinLoadOrdering)]
    /\ ops' = Counted(t, "load")
    /\ UNCHANGED <<locked, hist, relView, done, fn, local, result, direct,
                   directRet, counting, nested, lasso, trVars>>

\* The closure starts: it reads the payload through its &mut T (the closures
\* of Closures; the closure that calls with_lock again is Reenter's).
FRead(t, m) ==
    /\ pc[t] = "f_read"
    /\ fn[t] \in Closures
    /\ \E i \in Visible(t, m) :
        /\ local' = [local EXCEPT ![t] = hist[i]]
        /\ seen' = [seen EXCEPT ![t] = i]
    /\ pc' = [pc EXCEPT ![t] = "f_write"]
    /\ ops' = Counted(t, "f")
    /\ UNCHANGED <<locked, hist, relView, done, fn, result, direct,
                   directRet, counting, nested, lasso, trVars>>

\* The closure run on a copy of the payload: its value becomes `ret`, its
\* mutation is lost.
FWriteOnCopy(t) ==
    /\ pc[t] = "f_write"
    /\ result' = [result EXCEPT ![t] = Apply(fn[t], local[t]).ret]
    /\ pc' = [pc EXCEPT ![t] = "store"]
    /\ UNCHANGED <<locked, hist, seen, relView, done, fn, local, ops, direct,
                   directRet, counting, nested, lasso, trVars>>

\* The closure finishes: it writes the payload (if it writes at all) and
\* its value becomes `ret`.
FWrite(t) ==
    /\ pc[t] = "f_write"
    /\ LET a == Apply(fn[t], local[t]) IN
        /\ hist' = IF a.writes THEN Append(hist, a.val) ELSE hist
        /\ seen' = [seen EXCEPT ![t] = IF a.writes THEN Len(hist) + 1 ELSE seen[t]]
        /\ result' = [result EXCEPT ![t] = a.ret]
    /\ pc' = [pc EXCEPT ![t] = "store"]
    /\ UNCHANGED <<locked, relView, done, fn, local, ops, direct, directRet,
                   counting, nested, lasso, trVars>>

\* A release store that writes the wrong constant.
StoreValueWrong == LOCKED

\* The value the release store writes to the flag.
StoreValue == UNLOCKED

\* with_lock without its release store.
StoreSkipped(t) ==
    /\ pc[t] = "store"
    /\ pc' = [pc EXCEPT ![t] = "ret"]
    /\ ops' = Counted(t, "store")
    /\ UNCHANGED <<locked, hist, seen, relView, done, fn, local, result,
                   direct, directRet, counting, nested, lasso, trVars>>

\* self.locked.store(UNLOCKED, Relaxed).
Store(t) ==
    /\ pc[t] = "store"
    /\ locked' = StoreValue
    /\ relView' = IF Releases(StoreOrdering) THEN seen[t] ELSE 0
    /\ pc' = [pc EXCEPT ![t] = "ret"]
    /\ ops' = Counted(t, "store")
    /\ UNCHANGED <<hist, seen, done, fn, local, result, direct, directRet,
                   counting, nested, lasso, trVars>>

\* with_lock returns `ret` to its caller; the call's counters end with it.
Return(t) ==
    /\ pc[t] = "ret"
    /\ pc' = [pc EXCEPT ![t] = "idle"]
    /\ done' = [done EXCEPT ![t] = done[t] + 1]
    /\ ops' = [ops EXCEPT ![t] = NoOps]
    /\ UNCHANGED <<locked, hist, seen, relView, fn, local, result, direct,
                   directRet, counting, nested, lasso, trVars>>

\* A panic under a lock that is released by a guard while unwinding.
PanicWithGuard(t) ==
    /\ pc[t] \in {"f_read", "f_write"}
    /\ pc' = [pc EXCEPT ![t] = "panicked"]
    /\ locked' = UNLOCKED
    /\ UNCHANGED <<hist, seen, relView, done, fn, local, result, ops, direct,
                   directRet, counting, nested, lasso, trVars>>

\* The closure panics.  The unwinding leaves with_lock without reaching the
\* release store, and the thread ends.
Panic(t) ==
    /\ pc[t] \in {"f_read", "f_write"}
    /\ pc' = [pc EXCEPT ![t] = "panicked"]
    /\ UNCHANGED <<locked, hist, seen, relView, done, fn, local, result, ops,
                   direct, directRet, counting, nested, lasso, trVars>>

\* Thread t calls m.with_lock(|_| m.with_lock(|w| *w += 1)): a closure that
\* calls with_lock on the same mutex.
CallReenter(t) ==
    /\ pc[t] = "idle"
    /\ done[t] < Iters
    /\ fn' = [fn EXCEPT ![t] = "reenter"]
    /\ pc' = [pc EXCEPT ![t] = "cas"]
    /\ UNCHANGED <<locked, hist, seen, relView, done, local, result, ops,
                   direct, directRet, counting, nested, lasso, trVars>>

\* That closure runs, under the lock its thread has acquired: it calls
\* with_lock, and the thread is at the compare_exchange of the inner call.
Reenter(t) ==
    /\ pc[t] = "f_read"
    /\ fn[t] = "reenter"
    /\ nested' = [nested EXCEPT ![t] = nested[t] + 1]
    /\ fn' = [fn EXCEPT ![t] = "inc"]
    /\ pc' = [pc EXCEPT ![t] = "cas"]
    /\ ops' = Counted(t, "f")
    /\ UNCHANGED <<locked, hist, seen, relView, done, local, result, direct,
                   directRet, counting, lasso, trVars>>

\* with_lock returns to a caller that calls it again and again
\* (loop { m.with_lock(f); }): the number of returned calls is counted up to
\* Iters only.
ReturnLoop(t) ==
    /\ pc[t] = "ret"
    /\ pc' = [pc EXCEPT ![t] = "idle"]
    /\ done' = [done EXCEPT ![t] = IF done[t] < Iters THEN done[t] + 1 ELSE Iters]
    /\ ops' = [ops EXCEPT ![t] = NoOps]
    /\ UNCHANGED <<locked, hist, seen, relView, fn, local, result, direct,
                   directRet, counting, nested, lasso, trVars>>

\* ------------------------------------------------------------------------
\* Remembering a state, to find an execution that comes back to it.

\* The state is remembered in which thread v, which has never returned from a
\* call, is in the load loop, and no other thread is in with_lock.
Mark(v) ==
    /\ ~lasso.on
    /\ pc[v] = "spin"
    /\ done[v] = 0
    /\ \A u \in Threads \ {v} : pc[u] = "idle" /\ done[u] = Iters
    /\ lasso' = [on |-> TRUE, victim |-> v, snap |-> mutexVars, pc |-> pc,
                 acquired |-> {}, moved |-> {}]
    /\ UNCHANGED <<mutexVars, trVars>>

\* What the present state shows to have happened since the state was
\* remembered: the threads that hold the lock have acquired it, the threads
\* that are at another place have taken a step.
Observe ==
    /\ lasso.on
    /\ lasso' = [lasso EXCEPT
                   !.acquired = @ \cup {t \in Threads : Holder(t)},
                   !.moved = @ \cup {t \in Threads : pc[t] # lasso.pc[t]}]
    /\ lasso' # lasso
    /\ UNCHANGED <<mutexVars, trVars>>

\* ------------------------------------------------------------------------
\* The parts of the state a workload does not use.

\* No state is remembered.
NoLasso == [on |-> FALSE]

\* The test too_relaxed is not run.
TooRelaxedOff ==
    /\ x = 0
    /\ y = 0
    /\ tpc = [t \in {"t1", "t2"} |-> "unspawned"]
    /\ todo = [t \in {"t1", "t2"} |-> {}]
    /\ reg = [t \in {"t1", "t2"} |-> 0]
    /\ mainpc = "off"
    /\ r1 = 0
    /\ r2 = 0
    /\ mode = "program_order"
    /\ order = << >>

\* ------------------------------------------------------------------------
\* The test too_relaxed.

\* The value t2 stores to y.
Stored == 42

\* The operations of a spawned thread, and those that precede an operation
\* in the thread's program.
ThreadOps == {"load", "store"}
Earlier(op) == IF op = "store" THEN {"load"} ELSE {}

\* Whether operation op of thread t uses what the earlier operation e of t
\* produced: t1 stores the r1 it loaded, t2 stores a constant.
DependsOn(t, op, e) == t = "t1" /\ op = "store" /\ e = "load"

\* Relaxed operations that take effect in any order, dependent or not.
ReadyUnordered(t, op) == op \in todo[t]

\* Whether operation op of thread t can take effect now: it is still to do,
\* and every earlier operation of t has taken effect, unless operations may
\* take effect out of program order and op does not depend on it.
Ready(t, op) ==
    /\ op \in todo[t]
    /\ \A e \in Earlier(op) \cap todo[t] :
          mode = "relaxed" /\ ~DependsOn(t, op, e)

\* let t1 = spawn(...), let t2 = spawn(...).
Spawn(t) ==
    /\ mainpc = "spawn_" \o t
    /\ tpc' = [tpc EXCEPT ![t] = "running"]
    /\ todo' = [todo EXCEPT ![t] = ThreadOps]
    /\ mainpc' = IF t = "t1" THEN "spawn_t2" ELSE "join_t1"
    /\ UNCHANGED <<x, y, reg, r1, r2, mode, order, mutexVars, lasso>>

\* t1: let r1 = y.load(Relaxed).
T1Load ==
    /\ tpc["t1"] = "running"
    /\ Ready("t1", "load")
    /\ reg' = [reg EXCEPT !["t1"] = y]
    /\ todo' = [todo EXCEPT !["t1"] = @ \ {"load"}]
    /\ order' = Append(order, <<"t1", "load">>)
    /\ UNCHANGED <<x, y, tpc, mainpc, r1, r2, mode, mutexVars, lasso>>

\* t1: x.store(r1, Relaxed).
T1Store ==
    /\ tpc["t1"] = "running"
    /\ Ready("t1", "store")
    /\ x' = reg["t1"]
    /\ todo' = [todo EXCEPT !["t1"] = @ \ {"store"}]
    /\ order' = Append(order, <<"t1", "store">>)
    /\ UNCHANGED <<y, tpc, reg, mainpc, r1, r2, mode, mutexVars, lasso>>

\* t2: let r2 = x.load(Relaxed).
T2Load ==
    /\ tpc["t2"] = "running"
    /\ Ready("t2", "load")
    /\ reg' = [reg EXCEPT !["t2"] = x]
    /\ todo' = [todo EXCEPT !["t2"] = @ \ {"load"}]
    /\ order' = Append(order, <<"t2", "load">>)
    /\ UNCHANGED <<x, y, tpc, mainpc, r1, r2, mode, mutexVars, lasso>>

\* t2: y.store(42, Relaxed).
T2Store ==
    /\ tpc["t2"] = "running"
    /\ Ready("t2", "store")
    /\ y' = Stored
    /\ todo' = [todo EXCEPT !["t2"] = @ \ {"store"}]
    /\ order' = Append(order, <<"t2", "store">>)
    /\ UNCHANGED <<x, tpc, reg, mainpc, r1, r2, mode, mutexVars, lasso>>

\* The closure of thread t returns its r1, resp. r2: the thread ends.
Finish(t) ==
    /\ tpc[t] = "running"
    /\ todo[t] = {}
    /\ tpc' = [tpc EXCEPT ![t] = "finished"]
    /\ UNCHANGED <<x, y, todo, reg, mainpc, r1, r2, mode, order, mutexVars,
                   lasso>>

\* let r1 = t1.join().unwrap().
JoinT1 ==
    /\ mainpc = "join_t1"
    /\ tpc["t1"] = "finished"
    /\ r1' = reg["t1"]
    /\ mainpc' = "join_t2"
    /\ UNCHANGED <<x, y, tpc, todo, reg, r2, mode, order, mutexVars, lasso>>

\* let r2 = t2.join().unwrap().
JoinT2 ==
    /\ mainpc = "join_t2"
    /\ tpc["t2"] = "finished"
    /\ r2' = reg["t2"]
    /\ mainpc' = "assert"
    /\ UNCHANGED <<x, y, tpc, todo, reg, r1, mode, order, mutexVars, lasso>>

\* assert_eq!(r1, 42): the test passes, or panics.
AssertR1 ==
    /\ mainpc = "assert"
    /\ mainpc' = IF r1 = 42 THEN "passed" ELSE "failed"
    /\ UNCHANGED <<x, y, tpc, todo, reg, r1, r2, mode, order, mutexVars,
                   lasso>>

\* ------------------------------------------------------------------------
\* Specifications.

\* test_mutex: NumThreads threads, each calling with_lock(|l| *l += 1) Iters
\* times on a mutex built with 0, under interleaving semantics.
Init == New(0, Threads, FALSE) /\ lasso = NoLasso /\ TooRelaxedOff

Next ==
    \E t \in Threads :
        \/ Call(t, {"inc"}, Iters)
        \/ Cas(t)
        \/ SpinLoad(t)
        \/ FRead(t, "sc")
        \/ FWrite(t)
        \/ Store(t)
        \/ Return(t)

Spec == Init /\ [][Next]_vars

AllDone == \A t \in Threads : pc[t] = "idle" /\ done[t] = Iters

\* The steps of one thread of test_mutex.
ThreadStep(t) ==
    \/ Call(t, {"inc"}, Iters)
    \/ Cas(t)
    \/ SpinLoad(t)
    \/ FRead(t, "sc")
    \/ FWrite(t)
    \/ Store(t)
    \/ Return(t)

\* test_mutex with threads that are scheduled again and again: every thread
\* that can take a step eventually takes one.
SpecFair == Init /\ [][Next]_vars /\ \A t \in Threads : WF_vars(ThreadStep(t))

\* test_mutex under the weak memory model: the flag operations are atomic,
\* and order the payload accesses only as far as their orderings say.
NextRelaxed ==
    \E t \in Threads :
        \/ Call(t, {"inc"}, Iters)
        \/ Cas(t)
        \/ SpinLoad(t)
        \/ FRead(t, "relaxed")
        \/ FWrite(t)
        \/ Store(t)
        \/ Return(t)

SpecRelaxed == Init /\ [][NextRelaxed]_vars

\* test_mutex with closures that may panic.
NextPanic ==
    \E t \in Threads :
        \/ Call(t, {"inc"}, Iters)
        \/ Cas(t)
        \/ SpinLoad(t)
        \/ FRead(t, "sc")
        \/ FWrite(t)
        \/ Store(t)
        \/ Return(t)
        \/ Panic(t)

SpecPanic == Init /\ [][NextPanic]_vars

\* One thread making SeqCalls calls with any closures, on a mutex built with
\* any initial value, the operations of every call counted.  The load loop
\* is left out of the next-state relation: C9FastPath shows that this thread
\* never enters it.
InitSeq ==
    /\ \E v \in 0 .. MaxInit : New(v, {1}, TRUE)
    /\ lasso = NoLasso
    /\ TooRelaxedOff

NextSeq ==
    \/ Call(1, Closures, SeqCalls)
    \/ Cas(1)
    \/ FRead(1, "sc")
    \/ FWrite(1)
    \/ Store(1)
    \/ Return(1)

SpecSeq == InitSeq /\ [][NextSeq]_vars

\* Threads that call with_lock(|v| *v) for ever, the operations of every call
\* counted.
InitLoop == New(0, Threads, TRUE) /\ lasso = NoLasso /\ TooRelaxedOff

LoopStep(t) ==
    \/ Call(t, {"get"}, Iters + 1)
    \/ Cas(t)
    \/ SpinLoad(t)
    \/ FRead(t, "sc")
    \/ FWrite(t)
    \/ Store(t)
    \/ ReturnLoop(t)

NextLoop ==
    \E t \in Threads :
        \/ Call(t, {"get"}, Iters + 1)
        \/ Cas(t)
        \/ SpinLoad(t)
        \/ FRead(t, "sc")
        \/ FWrite(t)
        \/ Store(t)
        \/ ReturnLoop(t)

SpecLoop == InitLoop /\ [][NextLoop]_vars

\* The same threads, their operations not counted, every one of them
\* scheduled again and again.
SpecLoopFair ==
    Init /\ [][NextLoop]_vars /\ \A t \in Threads : WF_vars(LoopStep(t))

\* The same threads, their operations not counted, with a state remembered
\* on the way.
NextLasso ==
    \/ \E t \in Threads :
        \/ Call(t, {"get"}, Iters + 1)
        \/ Cas(t)
        \/ SpinLoad(t)
        \/ FRead(t, "sc")
        \/ FWrite(t)
        \/ Store(t)
        \/ ReturnLoop(t)
        \/ Mark(t)
    \/ Observe

SpecLasso == Init /\ [][NextLasso]_vars

\* The threads of test_mutex with the closure
\* |v| { let old = *v; *v += 1; old }.
NextFetch ==
    \E t \in Threads :
        \/ Call(t, {"fetch_inc"}, Iters)
        \/ Cas(t)
        \/ SpinLoad(t)
        \/ FRead(t, "sc")
        \/ FWrite(t)
        \/ Store(t)
        \/ Return(t)

SpecFetch == Init /\ [][NextFetch]_vars

\* Threads whose closures may call with_lock again.
NextReenter ==
    \E t \in Threads :
        \/ Call(t, {"inc"}, Iters)
        \/ CallReenter(t)
        \/ Cas(t)
        \/ SpinLoad(t)
        \/ FRead(t, "sc")
        \/ Reenter(t)
        \/ FWrite(t)
        \/ Store(t)
        \/ Return(t)

SpecReenter == Init /\ [][NextReenter]_vars

\* The test too_relaxed, its operations taking effect in program order or,
\* as Relaxed permits, out of it.
InitTooRelaxed ==
    /\ New(0, Threads, FALSE)
    /\ lasso = NoLasso
    /\ x = 0
    /\ y = 0
    /\ tpc = [t \in {"t1", "t2"} |-> "unspawned"]
    /\ todo = [t \in {"t1", "t2"} |-> {}]
    /\ reg = [t \in {"t1", "t2"} |-> 0]
    /\ mainpc = "spawn_t1"
    /\ r1 = 0
    /\ r2 = 0
    /\ mode \in {"program_order", "relaxed"}
    /\ order = << >>

NextTooRelaxed ==
    \/ \E t \in {"t1", "t2"} :
        \/ Spawn(t)
        \/ Finish(t)
    \/ T1Load
    \/ T1Store
    \/ T2Load
    \/ T2Store
    \/ JoinT1
    \/ JoinT2
    \/ AssertR1

SpecTooRelaxed == InitTooRelaxed /\ [][NextTooRelaxed]_vars

\* ------------------------------------------------------------------------
\* Claims.

\* C1: mutual exclusion.  In every reachable state at most one thread is
\* between its successful compare_exchange and its release store, so at most
\* one thread runs the closure with a mutable reference to the payload.
C1MutualExclusion == Cardinality({t \in Threads : Holder(t)}) <= 1

\* A thread is in the middle of its closure while another one, having lost
\* the compare_exchange, is in the load loop.
C1Witness ==
    \E t, u \in Threads :
        /\ t # u
        /\ pc[t] = "f_write"
        /\ pc[u] = "spin"
        /\ done[u] >= 1

\* C2: no lost updates.  Once all NumThreads threads have made their Iters
\* calls of with_lock(|v| *v += 1) on a payload that started at 0, the
\* payload is NumThreads * Iters.
C2NoLostUpdates == AllDone => Payload = NumThreads * Iters

\* All threads have finished and every call has left its write.
C2Witness == AllDone /\ Len(hist) = NumThreads * Iters + 1

\* C3: visibility.  The value a closure has read is the value the most
\* recent critical section wrote (the initial value if there was none).
C3Visibility == \A t \in Threads : pc[t] = "f_write" => local[t] = Payload

\* C4 as claimed: whenever a call is about to return, the flag is UNLOCKED.
C4UnlockedAtReturn == \A t \in Threads : pc[t] = "ret" => locked = UNLOCKED

\* C4 as amended: when a call is about to return, its own release store has
\* taken effect: the flag is UNLOCKED unless another thread has acquired the
\* lock since, and that thread is then the holder; in particular the flag is
\* UNLOCKED when no other thread is in with_lock.
C4ReleasedAtReturn ==
    \A t \in Threads :
        pc[t] = "ret" =>
            /\ locked = LOCKED => \E u \in Threads \ {t} : Holder(u)
            /\ (\A u \in Threads \ {t} : pc[u] = "idle") => locked = UNLOCKED

\* A call is about to return while another thread already holds the lock,
\* and another call is about to return with the flag UNLOCKED.
C4Witness ==
    \E t, u \in Threads :
        /\ t # u
        /\ pc[t] = "ret"
        /\ Holder(u)
        /\ locked = LOCKED

\* C5 as claimed: whenever a call is about to return, the payload is the
\* value its closure left.
C5PayloadAtReturn ==
    \A t \in Threads :
        pc[t] = "ret" => Payload = Apply(fn[t], local[t]).val

\* C5 as amended: from the moment the closure has read the payload to the
\* release store, no other thread writes the payload; at the release store
\* the payload is the value the closure left.
C5PayloadAtRelease ==
    \A t \in Threads :
        /\ pc[t] = "f_write" =>
              Payload = local[t] /\ seen[t] = Len(hist)
        /\ pc[t] = "store" =>
              Payload = Apply(fn[t], local[t]).val /\ seen[t] = Len(hist)

\* A thread is at its release store, after a critical section of another
\* thread, while the other thread waits for the lock again.
C5Witness ==
    \E t, u \in Threads :
        /\ t # u
        /\ pc[t] = "store"
        /\ done[u] >= 1
        /\ Waiting(u)
        /\ Payload >= 2

\* C6: once a closure has panicked under the lock, the flag is LOCKED and
\* stays LOCKED, no thread that has not acquired the lock acquires it, and
\* no such thread returns from a call.
C6PanicLeavesLocked ==
    [][(\E t \in Threads : pc[t] = "panicked") =>
          /\ locked = LOCKED
          /\ locked' = LOCKED
          /\ \A u \in Threads :
                pc[u] \in {"idle", "cas", "spin"} =>
                    /\ pc'[u] \in {"idle", "cas", "spin"}
                    /\ done'[u] = done[u]]_vars

\* A closure has panicked and another thread is spinning on the flag.
C6Witness ==
    \E t, u \in Threads :
        /\ pc[t] = "panicked"
        /\ pc[u] = "spin"
        /\ done[u] < Iters

\* C7: sequential equivalence.  After every call made by a single thread the
\* payload is what the same closures, applied in the same order, leave in an
\* unprotected variable, and the call returns what the closure returns there.
C7SequentialEquivalence ==
    pc[1] \in {"store", "ret", "idle"} =>
        /\ Payload = direct
        /\ done[1] + (IF pc[1] = "idle" THEN 0 ELSE 1) > 0 => result[1] = directRet

\* The thread has made all its calls, the last of which returned a payload
\* value that differs from the initial one.
C7Witness ==
    /\ pc[1] = "idle"
    /\ done[1] = SeqCalls
    /\ result[1] # Unit
    /\ result[1] # Val(hist[1])
    /\ Len(hist) >= 3

\* C8: whenever no call is in progress (every thread is between two calls),
\* the flag is UNLOCKED, so the compare_exchange of the next call succeeds.
C8Quiescent ==
    (\A t \in Threads : pc[t] = "idle") =>
        /\ locked = UNLOCKED
        /\ CompareExchange(locked, UNLOCKED, LOCKED).ok

\* No call is in progress, every thread has made a call, and one can make
\* another.
C8Witness ==
    /\ \A t \in Threads : pc[t] = "idle" /\ done[t] >= 1
    /\ \E t \in Threads : done[t] < Iters

\* C9: the uncontended call.  A single thread never enters the load loop,
\* and when its call is about to return it has made exactly one
\* compare_exchange, no load, one run of the closure and one store.
C9FastPath ==
    /\ pc[1] # "spin"
    /\ pc[1] = "ret" =>
          ops[1] = [cas |-> 1, load |-> 0, f |-> 1, store |-> 1]

\* The second call of the thread is about to return.
C9Witness == pc[1] = "ret" /\ done[1] >= 1 /\ ops[1].cas = 1

\* C10: termination.  Under weak fairness of every thread's steps all threads
\* finish all their calls, and a state in which no step is possible is one
\* in which all threads have finished.
C10Termination == <>AllDone /\ [](AllDone \/ ENABLED Next)

\* All threads have finished.
C10Witness == AllDone /\ locked = UNLOCKED /\ Payload = NumThreads * Iters

\* C12: the flag's state machine.  The flag starts UNLOCKED; it changes only
\* from UNLOCKED to LOCKED, by a successful compare_exchange, and from LOCKED
\* to UNLOCKED, by a release store.  A release store finds the flag LOCKED,
\* and the thread that makes it is the one holder, which became holder by the
\* compare_exchange that set the flag.
C12FlagStateMachine ==
    /\ locked = UNLOCKED
    /\ [][/\ locked' # locked =>
               \/ /\ locked = UNLOCKED
                  /\ locked' = LOCKED
                  /\ \E t \in Threads : pc[t] = "cas" /\ pc'[t] = "f_read"
               \/ /\ locked = LOCKED
                  /\ locked' = UNLOCKED
                  /\ \E t \in Threads : pc[t] = "store" /\ pc'[t] = "ret"
          /\ \A t \in Threads :
               /\ (pc[t] = "store" /\ pc'[t] # "store") =>
                     /\ pc'[t] = "ret"
                     /\ locked = LOCKED
                     /\ locked' = UNLOCKED
                     /\ \A u \in Threads \ {t} : ~Holder(u)
               /\ (~Holder(t) /\ Holder(t)') =>
                     /\ pc[t] = "cas"
                     /\ pc'[t] = "f_read"
                     /\ locked = UNLOCKED
                     /\ locked' = LOCKED
               /\ (Holder(t) /\ Holder(t)') => locked' = LOCKED]_vars

\* The flag is LOCKED for the second time: it has gone through both changes.
C12Witness ==
    /\ locked = LOCKED
    /\ \E t \in Threads : pc[t] = "store" /\ Len(hist) >= 3

\* The threads that have made a successful compare_exchange and not yet the
\* release store that follows it; a thread whose closure panicked stays one.
C13Holders == {t \in Threads : Holder(t) \/ pc[t] = "panicked"}

\* C13: the flag is LOCKED exactly when one thread is a holder, and UNLOCKED
\* exactly when no thread is.
C13FlagHolder ==
    /\ locked = LOCKED <=> Cardinality(C13Holders) = 1
    /\ locked = UNLOCKED <=> C13Holders = {}

\* A thread holds the lock after another one has held and released it, and
\* the other one is back in the load loop.
C13Witness ==
    \E t, u \in Threads :
        /\ t # u
        /\ Holder(t)
        /\ pc[u] = "spin"
        /\ done[u] >= 1
        /\ locked = LOCKED

\* C15: the frame of the steps.  A failed compare_exchange and a load leave
\* flag and payload unchanged; a successful compare_exchange and the release
\* store leave the payload unchanged; the payload is written, and read, only
\* by a closure step of the one thread that holds the lock.
C15Frame ==
    [][/\ \A t \in Threads :
            /\ (pc[t] = "cas" /\ pc'[t] = "spin") =>
                  locked' = locked /\ hist' = hist /\ local' = local
            /\ (pc[t] = "spin" /\ pc'[t] # "spin") =>
                  locked' = locked /\ hist' = hist /\ local' = local
            /\ (pc[t] = "cas" /\ pc'[t] = "f_read") =>
                  hist' = hist /\ local' = local
            /\ (pc[t] = "store" /\ pc'[t] = "ret") =>
                  hist' = hist /\ local' = local
       /\ hist' # hist =>
            \E t \in Threads :
                /\ pc[t] = "f_write" /\ pc'[t] = "store"
                /\ locked = LOCKED
                /\ \A u \in Threads \ {t} : ~Holder(u) /\ pc'[u] = pc[u]
       /\ local' # local =>
            \E t \in Threads :
                /\ pc[t] = "f_read" /\ pc'[t] = "f_write"
                /\ locked = LOCKED
                /\ \A u \in Threads \ {t} :
                      ~Holder(u) /\ pc'[u] = pc[u] /\ local'[u] = local[u]]_vars

\* A thread is in the load loop, after a failed compare_exchange and a load
\* that read LOCKED, while the holder has written the payload.
C15Witness ==
    \E t, u \in Threads :
        /\ t # u
        /\ pc[t] = "spin"
        /\ pc[u] = "store"
        /\ Len(hist) >= 3

\* C11: no ordering among waiters.  Whenever the flag is UNLOCKED, a thread
\* that is at its compare_exchange can take the lock, although another thread
\* has been waiting in the load loop: the lock keeps no queue.
C11NoOrdering ==
    \A t, u \in Threads :
        (t # u /\ pc[t] = "spin" /\ pc[u] = "cas" /\ locked = UNLOCKED) =>
            ENABLED (Cas(u) /\ pc'[u] = "f_read")

\* An execution has come back to the remembered state.  Since that state
\* every thread has taken a step, and every thread but the victim has started
\* a call and acquired the lock, while the victim, which was in the load loop
\* already, is still waiting and has never returned from a call.  Repeating
\* this part for ever gives an execution, fair to every thread, in which the
\* victim never acquires the lock and the others acquire it again and again.
C11Witness ==
    /\ lasso.on
    /\ mutexVars = lasso.snap
    /\ lasso.moved = Threads
    /\ lasso.acquired = Threads \ {lasso.victim}
    /\ Waiting(lasso.victim)
    /\ done[lasso.victim] = 0

\* C14: test and test-and-set.  A failed compare_exchange takes the thread to
\* the load loop; the thread leaves the loop only by a load that reads
\* UNLOCKED, and only for another compare_exchange; while it is in the loop
\* it makes no compare_exchange.
C14TestAndTestAndSet ==
    [][\A t \in Threads :
          /\ (pc[t] = "cas" /\ pc'[t] # "cas") =>
                \/ pc'[t] = "f_read" /\ locked = UNLOCKED /\ locked' = LOCKED
                \/ pc'[t] = "spin" /\ locked = LOCKED /\ locked' = LOCKED
          /\ (pc[t] = "spin" /\ pc'[t] # "spin") =>
                /\ pc'[t] = "cas"
                /\ locked = UNLOCKED
                /\ locked' = UNLOCKED
                /\ ops'[t].load >= 1
          /\ pc[t] = "spin" => ops'[t].cas = ops[t].cas
          /\ ops'[t].cas # ops[t].cas => pc[t] = "cas" \/ pc[t] = "ret"]_vars

\* A thread is back in the load loop after its second failed
\* compare_exchange, which followed a load that read UNLOCKED.
C14Witness ==
    \E t \in Threads :
        /\ pc[t] = "spin"
        /\ ops[t].cas >= 2
        /\ ops[t].load >= 1

\* C17: progress.  Under weak fairness of every thread's steps, whenever a
\* thread waits for the lock some thread enters the critical section, every
\* holder releases the lock, and the flag is UNLOCKED again and again.
C17Progress ==
    /\ \A t \in Threads :
          Waiting(t) ~> (\E u \in Threads : pc[u] = "f_read")
    /\ \A t \in Threads : Holder(t) ~> ~Holder(t)
    /\ []<>(locked = UNLOCKED)

\* A thread waits for the lock while another one, which has returned from
\* calls before, holds it.
C17Witness ==
    \E t, u \in Threads :
        /\ t # u
        /\ Waiting(t)
        /\ Holder(u)
        /\ done[u] >= 1

C18NoReentrancy ==
    /\ [](\A t \in Threads : nested[t] > 0 =>
            /\ pc[t] \in {"cas", "spin"}
            /\ locked = LOCKED
            /\ \A u \in Threads \ {t} : ~Holder(u))
    /\ [][\A t \in Threads : nested[t] > 0 =>
            /\ nested'[t] = nested[t]
            /\ locked' = LOCKED
            /\ pc[t] = "spin" => pc'[t] = "spin"
            /\ done'[t] = done[t]
            /\ hist' = hist]_vars

\* A closure has called with_lock again and its thread is in the load loop of
\* the inner call; another thread, which has acquired the lock before, is
\* waiting for it.
C18Witness ==
    \E t, u \in Threads :
        /\ t # u
        /\ nested[t] > 0
        /\ pc[t] = "spin"
        /\ pc[u] = "spin"
        /\ done[u] >= 1

\* Both threads of too_relaxed have been joined.
Joined == mainpc \in {"assert", "passed", "failed"}

\* C19: in too_relaxed, after both threads have been joined r1 is 42, in
\* every interleaving of the two threads that keeps program order.
C19R1Is42 == (mode = "program_order" /\ Joined) => r1 = Stored

\* Whether operation a took effect before operation b.
TookEffectBefore(a, b) ==
    \E i, j \in 1 .. Len(order) : i < j /\ order[i] = a /\ order[j] = b

\* C20: in too_relaxed, no interleaving that keeps each thread's operations
\* in program order ends with r1 = 42 and r2 = 42: the outcome needs t2's
\* store to y to take effect before t2's load of x.
C20NotInProgramOrder ==
    /\ (mode = "program_order" /\ Joined) => ~(r1 = Stored /\ r2 = Stored)
    /\ (Joined /\ r1 = Stored /\ r2 = Stored) =>
          TookEffectBefore(<<"t2", "store">>, <<"t2", "load">>)

\* With t2's store taking effect before its load, both threads joined,
\* r1 = 42 and r2 = 42.
C20Witness ==
    /\ mode = "relaxed"
    /\ Joined
    /\ TookEffectBefore(<<"t2", "store">>, <<"t2", "load">>)
    /\ r1 = Stored
    /\ r2 = Stored

====
